---- MODULE Spec2Model ----
(***************************************************************************)
(* Lagos tertiary institution directory: the institution model with its    *)
(* per-category rank score, and the directory engine (filter, sort, top_n, *)
(* summarize) of lagos_institutions_directory.py.                          *)
(*                                                                         *)
(* Python strings are sequences of one-character strings, so that lower(), *)
(* strip(), the substring test and the lexicographic comparison are        *)
(* computed.  Python floats are exact rationals [num, den] in lowest terms *)
(* with den > 0.  An Optional value is <<>> for None and <<v>> for v.      *)
(***************************************************************************)
EXTENDS Integers, Sequences, FiniteSets, TLC

VARIABLES inst, inst0, dirProv, cur, curProv, curIsInst, op, arg, argAfter, out

vars == <<inst, inst0, dirProv, cur, curProv, curIsInst, op, arg, argAfter, out>>

(***************************************************************************)
(* Bounds of the model.                                                    *)
(***************************************************************************)
MaxInst == 2

(***************************************************************************)
(* Strings.                                                                *)
(***************************************************************************)
Uppers == <<"A","B","C","D","E","F","G","H","I","J","K","L","M",
            "N","O","P","Q","R","S","T","U","V","W","X","Y","Z">>

Lowers == <<"a","b","c","d","e","f","g","h","i","j","k","l","m",
            "n","o","p","q","r","s","t","u","v","w","x","y","z">>

\* Characters in code point order, as far as the model's strings use them.
CodeOrder == <<" ">> \o Uppers \o Lowers

CodeTable == [ch \in {CodeOrder[i] : i \in 1..Len(CodeOrder)} |->
                CHOOSE i \in 1..Len(CodeOrder) : CodeOrder[i] = ch]

CodePoint(ch) == CodeTable[ch]

LowerTable == [ch \in {Uppers[i] : i \in 1..Len(Uppers)} |->
                 Lowers[CHOOSE i \in 1..Len(Uppers) : Uppers[i] = ch]]

LowerChar(ch) == IF ch \in DOMAIN LowerTable THEN LowerTable[ch] ELSE ch

\* str.lower()
StrLower(s) == [i \in 1..Len(s) |-> LowerChar(s[i])]

IsSpace(ch) == ch \in {" ", "\t", "\n"}

RECURSIVE LStrip(_)
LStrip(s) == IF s # <<>> /\ IsSpace(Head(s)) THEN LStrip(Tail(s)) ELSE s

RECURSIVE RStrip(_)
RStrip(s) ==
    IF s # <<>> /\ IsSpace(s[Len(s)]) THEN RStrip(SubSeq(s, 1, Len(s) - 1)) ELSE s

\* str.strip()
Strip(s) == RStrip(LStrip(s))

\* Python's "kw in s" on strings
Contains(kw, s) ==
    \E i \in 0..(Len(s) - Len(kw)) : SubSeq(s, i + 1, i + Len(kw)) = kw

\* Python's a < b on strings: lexicographic by code point
RECURSIVE StrLess(_, _)
StrLess(a, b) ==
    IF b = <<>> THEN FALSE
    ELSE IF a = <<>> THEN TRUE
    ELSE IF Head(a) # Head(b) THEN CodePoint(Head(a)) < CodePoint(Head(b))
    ELSE StrLess(Tail(a), Tail(b))

(***************************************************************************)
(* Floats, as exact rationals.                                             *)
(***************************************************************************)
Abs(n) == IF n < 0 THEN -n ELSE n

RECURSIVE GCD(_, _)
GCD(a, b) == IF b = 0 THEN a ELSE GCD(b, a % b)

\* n / d for d # 0, in lowest terms with a positive denominator
Rat(n, d) ==
    LET g == GCD(Abs(n), Abs(d))
        s == IF d < 0 THEN -1 ELSE 1
    IN  [num |-> (s * n) \div g, den |-> (s * d) \div g]

RatOfInt(n) == [num |-> n, den |-> 1]

RatAdd(x, y) == Rat(x.num * y.den + y.num * x.den, x.den * y.den)

RatMul(x, y) == Rat(x.num * y.num, x.den * y.den)

RatLess(x, y) == x.num * y.den < y.num * x.den

RatLeq(x, y) == x.num * y.den <= y.num * x.den

RatMin(x, y) == IF RatLess(y, x) THEN y ELSE x

RatMax(x, y) == IF RatLess(x, y) THEN y ELSE x

Zero == RatOfInt(0)

One == RatOfInt(1)

(***************************************************************************)
(* Program constants.                                                      *)
(***************************************************************************)
AccreditationScale == 100

TuitionScale == 1000000

PopulationScale == 30000

(***************************************************************************)
(* BaseInstitution and its three subclasses.  An institution is a record   *)
(* of the dataclass fields (without the leading underscore) and cls, the   *)
(* subclass it was constructed as.                                         *)
(***************************************************************************)
Classes == {"University", "Polytechnic", "CollegeOfEducation"}

\* the category property of each subclass
category(i) ==
    CASE i.cls = "University" -> <<"u","n","i","v","e","r","s","i","t","y">>
      [] i.cls = "Polytechnic" -> <<"p","o","l","y","t","e","c","h","n","i","c">>
      [] i.cls = "CollegeOfEducation" -> <<"c","o","l","l","e","g","e">>

\* the ownership property
ownership(i) == StrLower(i.ownership)

offers_course(i, course_keyword) ==
    LET kw == StrLower(Strip(course_keyword))
    IN  \E j \in 1..Len(i.courses) : Contains(kw, StrLower(i.courses[j]))

\* (accreditation, affordability, size) weights of each subclass
base_rank_weights(i) ==
    CASE i.cls = "University" -> <<Rat(60, 100), Rat(20, 100), Rat(20, 100)>>
      [] i.cls = "Polytechnic" -> <<Rat(45, 100), Rat(35, 100), Rat(20, 100)>>
      [] i.cls = "CollegeOfEducation" -> <<Rat(50, 100), Rat(40, 100), Rat(10, 100)>>

\* The outcome of a call that returns a float: the value, or the exception.
Returned(v) == [err |-> "", val |-> v]

Raised(e) == [err |-> e, val |-> Zero]

\* rank_score without the clamp of the accreditation term
rank_score_noclamp(i) ==
    LET w == base_rank_weights(i)
        acc == Rat(i.accr, AccreditationScale)
        d == RatAdd(One, Rat(i.tuition, TuitionScale))
        size == RatMin(One, Rat(i.pop, PopulationScale))
    IN  IF d.num = 0 THEN Raised("ZeroDivisionError")
        ELSE Returned(RatAdd(RatAdd(RatMul(w[1], acc),
                                    RatMul(w[2], Rat(d.den, d.num))),
                             RatMul(w[3], size)))

rank_score(i) ==
    LET w == base_rank_weights(i)
        acc == RatMax(Zero, RatMin(One, Rat(i.accr, AccreditationScale)))
        d == RatAdd(One, Rat(i.tuition, TuitionScale))
        size == RatMin(One, Rat(i.pop, PopulationScale))
    IN  IF d.num = 0 THEN Raised("ZeroDivisionError")
        ELSE Returned(RatAdd(RatAdd(RatMul(w[1], acc),
                                    RatMul(w[2], Rat(d.den, d.num))),
                             RatMul(w[3], size)))

(***************************************************************************)
(* The institution objects.  A list holds references to them: an index     *)
(* into Heap.                                                              *)
(***************************************************************************)
Institution(c, nm, ow, lg, cs, t, a, p) ==
    [cls |-> c, name |-> nm, ownership |-> ow, lga |-> lg, courses |-> cs,
     tuition |-> t, accr |-> a, pop |-> p]

Yaba == <<"Y","a","b","a">>

Ojo == <<"O","j","o">>

Law == <<"L","a","w">>

CompSci == <<"C","S">>

\* Four institutions with equal and unequal values of every sort key, names
\* and regions that differ in case only, an empty course list and an
\* accreditation score above 100.  The second and the fourth have the same
\* rank score, 1/2; the first has 16/25 and the third 3/4.
Dataset ==
    << Institution("University", <<"A","b">>, <<"f","e","d","e","r","a","l">>,
                   Yaba, <<Law>>, 0, 40, 30000),
       Institution("Polytechnic", <<"a","B">>, <<"S","t","a","t","e">>,
                   StrLower(Yaba), <<CompSci, Law>>, 1000000, 50, 15000),
       Institution("CollegeOfEducation", <<"B">>, <<"s","t","a","t","e">>,
                   Ojo, <<>>, 1000000, 120, 15000),
       Institution("University", <<"a">>, <<"p","r","i","v","a","t","e">>,
                   Ojo, <<CompSci>>, 1000000, 50, 15000) >>

\* One institution of every class for every combination of numeric field
\* values, inside and outside their expected ranges.
ClassSeq == <<"University", "Polytechnic", "CollegeOfEducation">>

TuitionValues == <<-2000000, -1000000, 0, 1000000, 3000000>>

AccreditationValues == <<-20, 0, 50, 100, 150>>

PopulationValues == <<-15000, 0, 15000, 30000, 60000>>

NumericDataset ==
    [j \in 1..(Len(ClassSeq) * Len(TuitionValues) * Len(AccreditationValues)
               * Len(PopulationValues)) |->
       LET c == (j - 1) % Len(ClassSeq)
           t == ((j - 1) \div Len(ClassSeq)) % Len(TuitionValues)
           a == ((j - 1) \div (Len(ClassSeq) * Len(TuitionValues)))
                  % Len(AccreditationValues)
           p == (j - 1) \div (Len(ClassSeq) * Len(TuitionValues)
                              * Len(AccreditationValues))
       IN  Institution(ClassSeq[c + 1], <<"N">>, <<"s","t","a","t","e">>, Ojo,
                       <<Law>>, TuitionValues[t + 1], AccreditationValues[a + 1],
                       PopulationValues[p + 1])]

Heap == Dataset \o NumericDataset

Obj(ref) == Heap[ref]

DatasetRefs == 1..Len(Dataset)

NumericRefs == (Len(Dataset) + 1)..Len(Heap)

Collections(U, n) == UNION { [1..k -> U] : k \in 0..n }

(***************************************************************************)
(* What a call gives back: a list (with the identity of the list object:   *)
(* "new", or "inst" / "arg" when it is the directory's collection or the   *)
(* caller's argument itself), a float, a bool, a text, or an exception.    *)
(***************************************************************************)
NoOut ==
    [kind |-> "none", list |-> <<>>, alias |-> "", val |-> Zero, flag |-> FALSE,
     msg |-> "", lines |-> <<>>, err |-> ""]

ListOut(l, a) == [NoOut EXCEPT !.kind = "list", !.list = l, !.alias = a]

BoolOut(b) == [NoOut EXCEPT !.kind = "bool", !.flag = b]

ScoreOut(v) == [NoOut EXCEPT !.kind = "score", !.val = v]

TextOut(m, ls) == [NoOut EXCEPT !.kind = "text", !.msg = m, !.lines = ls]

ErrOut(e) == [NoOut EXCEPT !.kind = "error", !.err = e]

(***************************************************************************)
(* InstitutionDirectory.filter.  A criterion is an Optional: <<>> is None. *)
(***************************************************************************)
None == <<>>

Some(v) == <<v>>

\* Python truth of an Optional[str]: neither None nor ""
Truthy(o) == o # None /\ o[1] # <<>>

NoCriteria ==
    [category |-> None, ownership |-> None, lga |-> None,
     course_keyword |-> None, min_accreditation |-> None, max_tuition |-> None]

KeepsMinAccreditationStrict(i, bound) == i.accr > bound

\* line 168: i.accreditation_score >= float(min_accreditation)
KeepsMinAccreditation(i, bound) == i.accr >= bound

\* line 170: i.tuition_avg <= float(max_tuition)
KeepsMaxTuition(i, bound) == i.tuition <= bound

\* filter with the tests chained by elif: only the first present one applies
FilteredElif(insts, c) ==
    IF Truthy(c.category)
    THEN SelectSeq(insts, LAMBDA i : category(Obj(i)) = StrLower(c.category[1]))
    ELSE IF Truthy(c.ownership)
    THEN SelectSeq(insts, LAMBDA i : ownership(Obj(i)) = StrLower(c.ownership[1]))
    ELSE IF Truthy(c.lga)
    THEN SelectSeq(insts, LAMBDA i : StrLower(Obj(i).lga) = StrLower(c.lga[1]))
    ELSE IF Truthy(c.course_keyword)
    THEN SelectSeq(insts, LAMBDA i : offers_course(Obj(i), c.course_keyword[1]))
    ELSE IF c.min_accreditation # None
    THEN SelectSeq(insts, LAMBDA i : KeepsMinAccreditation(Obj(i), c.min_accreditation[1]))
    ELSE IF c.max_tuition # None
    THEN SelectSeq(insts, LAMBDA i : KeepsMaxTuition(Obj(i), c.max_tuition[1]))
    ELSE insts

\* lines 155-171: the working set, narrowed by each present criterion in turn
Filtered(insts, c) ==
    LET r1 == IF Truthy(c.category)
              THEN SelectSeq(insts, LAMBDA i : category(Obj(i)) = StrLower(c.category[1]))
              ELSE insts
        r2 == IF Truthy(c.ownership)
              THEN SelectSeq(r1, LAMBDA i : ownership(Obj(i)) = StrLower(c.ownership[1]))
              ELSE r1
        r3 == IF Truthy(c.lga)
              THEN SelectSeq(r2, LAMBDA i : StrLower(Obj(i).lga) = StrLower(c.lga[1]))
              ELSE r2
        r4 == IF Truthy(c.course_keyword)
              THEN SelectSeq(r3, LAMBDA i : offers_course(Obj(i), c.course_keyword[1]))
              ELSE r3
        r5 == IF c.min_accreditation # None
              THEN SelectSeq(r4, LAMBDA i :
                                 KeepsMinAccreditation(Obj(i), c.min_accreditation[1]))
              ELSE r4
        r6 == IF c.max_tuition # None
              THEN SelectSeq(r5, LAMBDA i : KeepsMaxTuition(Obj(i), c.max_tuition[1]))
              ELSE r5
    IN  r6

\* filter: the value returned (list(res), a new list) and self._inst afterwards
filter(insts, c) ==
    [ret |-> ListOut(Filtered(insts, c), "new"), inst |-> insts]

(***************************************************************************)
(* InstitutionDirectory.sort.                                              *)
(***************************************************************************)
KeyNames == {"rank", "tuition", "accreditation", "name", "population"}

\* an unknown key name selecting the name key
KeyNameFallbackName(by) == IF by \in KeyNames THEN by ELSE "name"

\* lines 179-185: the dictionary lookup, with the rank key as its default
KeyName(by) == IF by \in KeyNames THEN by ELSE "rank"

\* The key of one institution: a number or a string, or the exception that
\* computing it raised.
NumKey(v) == [err |-> "", kind |-> "num", num |-> v, str |-> <<>>]

StrKey(t) == [err |-> "", kind |-> "str", num |-> Zero, str |-> t]

ErrKey(e) == [err |-> e, kind |-> "num", num |-> Zero, str |-> <<>>]

\* the name key without lower()
keyf_case_sensitive(k, x) ==
    CASE k = "rank" -> IF rank_score(x).err # "" THEN ErrKey(rank_score(x).err)
                       ELSE NumKey(rank_score(x).val)
      [] k = "tuition" -> NumKey(RatOfInt(x.tuition))
      [] k = "accreditation" -> NumKey(RatOfInt(x.accr))
      [] k = "name" -> StrKey(x.name)
      [] k = "population" -> NumKey(RatOfInt(x.pop))

\* lines 180-184: the five key functions
keyf(k, x) ==
    CASE k = "rank" -> IF rank_score(x).err # "" THEN ErrKey(rank_score(x).err)
                       ELSE NumKey(rank_score(x).val)
      [] k = "tuition" -> NumKey(RatOfInt(x.tuition))
      [] k = "accreditation" -> NumKey(RatOfInt(x.accr))
      [] k = "name" -> StrKey(StrLower(x.name))
      [] k = "population" -> NumKey(RatOfInt(x.pop))

\* Python's a < b on two keys of the same kind
KeyLess(a, b) ==
    IF a.kind = "str" THEN StrLess(a.str, b.str) ELSE RatLess(a.num, b.num)

Reverse(xs) == [j \in 1..Len(xs) |-> xs[Len(xs) + 1 - j]]

\* x put into the sorted sequence ys behind every element that is not greater
RECURSIVE InsertByKey(_, _, _)
InsertByKey(k, x, ys) ==
    IF ys = <<>> THEN <<x>>
    ELSE IF KeyLess(keyf(k, Obj(x)), keyf(k, Obj(Head(ys)))) THEN <<x>> \o ys
    ELSE <<Head(ys)>> \o InsertByKey(k, x, Tail(ys))

\* a stable ascending sort by key k
RECURSIVE StableSort(_, _)
StableSort(k, xs) ==
    IF xs = <<>> THEN <<>>
    ELSE InsertByKey(k, xs[Len(xs)], StableSort(k, SubSeq(xs, 1, Len(xs) - 1)))

\* reverse=True taken as the ascending result read backwards
SortedReversedAfter(xs, k, reverse) ==
    IF reverse THEN Reverse(StableSort(k, xs)) ELSE StableSort(k, xs)

\* sorted(xs, key=, reverse=): stable in both directions (with reverse, the
\* list is reversed, sorted stably and reversed again)
Sorted(xs, k, reverse) ==
    IF reverse THEN Reverse(StableSort(k, Reverse(xs))) ELSE StableSort(k, xs)

\* sort done in place on the argument, which is handed back
sort_in_place(institutions, by, descending) ==
    IF \E j \in 1..Len(institutions) : keyf(KeyName(by), Obj(institutions[j])).err # ""
    THEN [ret |-> ErrOut("ZeroDivisionError"), arg |-> institutions]
    ELSE [ret |-> ListOut(Sorted(institutions, KeyName(by), descending), "arg"),
          arg |-> Sorted(institutions, KeyName(by), descending)]

\* sort: the value returned (a new list, or the exception a key function
\* raised) and the argument list afterwards
sort(institutions, by, descending) ==
    IF \E j \in 1..Len(institutions) : keyf(KeyName(by), Obj(institutions[j])).err # ""
    THEN [ret |-> ErrOut("ZeroDivisionError"), arg |-> institutions]
    ELSE [ret |-> ListOut(Sorted(institutions, KeyName(by), descending), "new"),
          arg |-> institutions]

(***************************************************************************)
(* InstitutionDirectory.top_n and summarize.                               *)
(***************************************************************************)
Max(a, b) == IF a >= b THEN a ELSE b

Min(a, b) == IF a <= b THEN a ELSE b

\* Python's xs[:k]: a negative k counts from the end
SliceTo(xs, k) ==
    IF k >= 0 THEN SubSeq(xs, 1, Min(k, Len(xs)))
    ELSE SubSeq(xs, 1, Max(0, Len(xs) + k))

\* institutions[:n], without the max
top_n_unclamped(institutions, n) ==
    [ret |-> ListOut(SliceTo(institutions, n), "new"), arg |-> institutions]

\* top_n: institutions[:max(0, n)], a new list
top_n(institutions, n) ==
    [ret |-> ListOut(SliceTo(institutions, Max(0, n)), "new"), arg |-> institutions]

NoMatchMessage == "No institutions matched your criteria."

\* summarize: the fixed message, or one numbered line per institution with
\* its rank score (the text of a line is its index, name and score here)
summarize(institutions) ==
    IF institutions = <<>>
    THEN [ret |-> TextOut(NoMatchMessage, <<>>), arg |-> institutions]
    ELSE IF \E j \in 1..Len(institutions) : rank_score(Obj(institutions[j])).err # ""
    THEN [ret |-> ErrOut("ZeroDivisionError"), arg |-> institutions]
    ELSE [ret |-> TextOut("", [j \in 1..Len(institutions) |->
                                 [index |-> j, name |-> Obj(institutions[j]).name,
                                  score |-> rank_score(Obj(institutions[j])).val]]),
          arg |-> institutions]

(***************************************************************************)
(* The queries made.                                                       *)
(***************************************************************************)
SingleCriteria ==
    { [NoCriteria EXCEPT !.category = Some(v)] :
        v \in { <<>>, <<"U","n","i","v","e","r","s","i","t","y">> } }
    \cup { [NoCriteria EXCEPT !.ownership = Some(<<"S","T","A","T","E">>)] }
    \cup { [NoCriteria EXCEPT !.lga = Some(<<"Y","A","B","A">>)] }
    \cup { [NoCriteria EXCEPT !.course_keyword = Some(v)] :
             v \in { <<>>, <<" ">>, <<"L","A","W"," ">> } }
    \cup { [NoCriteria EXCEPT !.min_accreditation = Some(50)] }
    \cup { [NoCriteria EXCEPT !.max_tuition = Some(v)] : v \in {0, 1000000} }

Fields ==
    {"category", "ownership", "lga", "course_keyword", "min_accreditation",
     "max_tuition"}

\* two sets of criteria that give no field two different values
Compatible(a, b) == \A f \in Fields : a[f] = None \/ b[f] = None \/ a[f] = b[f]

\* the criteria of a and of b together
Merge(a, b) == [f \in Fields |-> IF a[f] # None THEN a[f] ELSE b[f]]

CategoryIs(v) == [NoCriteria EXCEPT !.category = Some(v)]

OwnershipIs(v) == [NoCriteria EXCEPT !.ownership = Some(v)]

\* The criteria of the filter calls made: none, each one alone, some two
\* together, and all six together.
Criteria ==
    {NoCriteria} \cup SingleCriteria
    \cup { [CategoryIs(<<"U","n","i","v","e","r","s","i","t","y">>)
              EXCEPT !.course_keyword = Some(<<"L","A","W"," ">>)],
           [CategoryIs(<<"U","N","I","V","E","R","S","I","T","Y">>)
              EXCEPT !.min_accreditation = Some(50)],
           [OwnershipIs(<<"S","T","A","T","E">>)
              EXCEPT !.lga = Some(<<"Y","A","B","A">>)],
           [OwnershipIs(<<"S","t","a","t","e">>)
              EXCEPT !.max_tuition = Some(1000000)] }
    \cup { [category |-> Some(<<"p","o","l","y","t","e","c","h","n","i","c">>),
            ownership |-> Some(<<"s","t","a","t","e">>),
            lga |-> Some(<<"Y","a","b","a">>),
            course_keyword |-> Some(<<"c","s">>),
            min_accreditation |-> Some(50),
            max_tuition |-> Some(1000000)] }

Keywords == { <<>>, <<"l","a","w">> }

\* the five key names, and two that the dictionary does not hold
SortKeys == KeyNames \cup {"Rank", ""}

NoOp ==
    [name |-> "load", crit |-> NoCriteria, by |-> "", descending |-> FALSE,
     n |-> 0, kw |-> <<>>]

(***************************************************************************)
(* State.  inst is the directory's collection self._inst and inst0 its     *)
(* content when the directory was constructed; cur is the list the caller  *)
(* holds (the last list a query returned), curIsInst says that it is the   *)
(* very list object the directory holds; curProv and dirProv record the    *)
(* filter call (collection and criteria) that produced cur, and the list   *)
(* the directory was constructed from.  op, arg, argAfter and out describe *)
(* the last call: its name and parameters, the list passed before and      *)
(* after the call, and what it gave back.                                  *)
(***************************************************************************)
InitWith(U, n) ==
    /\ inst \in Collections(U, n)
    /\ inst0 = inst
    /\ dirProv = None
    /\ cur = <<>>
    /\ curProv = None
    /\ curIsInst = FALSE
    /\ op = NoOp
    /\ arg = <<>>
    /\ argAfter = <<>>
    /\ out = NoOut

Init == InitWith(DatasetRefs, MaxInst)

\* directory.filter(**c)
Filter(c) ==
    LET r == filter(inst, c)
    IN  /\ inst' = r.inst
        /\ out' = r.ret
        /\ cur' = r.ret.list
        /\ curIsInst' = (r.ret.alias = "inst")
        /\ curProv' = Some([base |-> inst, crit |-> c])
        /\ op' = [NoOp EXCEPT !.name = "filter", !.crit = c]
        /\ arg' = <<>>
        /\ argAfter' = <<>>
        /\ UNCHANGED <<inst0, dirProv>>

\* What a call on the caller's list leaves: r is the call's [ret, arg].
OnCur(r) ==
    /\ arg' = cur
    /\ argAfter' = r.arg
    /\ out' = r.ret
    /\ inst' = IF curIsInst THEN r.arg ELSE inst
    /\ IF r.ret.kind = "list"
       THEN /\ cur' = r.ret.list
            /\ curIsInst' = (curIsInst /\ r.ret.alias = "arg")
            /\ curProv' = None
       ELSE /\ cur' = r.arg
            /\ UNCHANGED <<curIsInst, curProv>>
    /\ UNCHANGED <<inst0, dirProv>>

\* directory.sort(cur, by, descending)
Sort(by, descending) ==
    /\ OnCur(sort(cur, by, descending))
    /\ op' = [NoOp EXCEPT !.name = "sort", !.by = by, !.descending = descending]

\* directory.top_n(cur, n)
TopN(n) ==
    /\ OnCur(top_n(cur, n))
    /\ op' = [NoOp EXCEPT !.name = "top_n", !.n = n]

\* directory.summarize(cur)
Summarize ==
    /\ OnCur(summarize(cur))
    /\ op' = [NoOp EXCEPT !.name = "summarize"]

\* inst[k].rank_score()
RankScore(k) ==
    /\ out' = IF rank_score(Obj(inst[k])).err # "" THEN ErrOut(rank_score(Obj(inst[k])).err)
              ELSE ScoreOut(rank_score(Obj(inst[k])).val)
    /\ op' = [NoOp EXCEPT !.name = "rank_score", !.n = k]
    /\ arg' = <<>>
    /\ argAfter' = <<>>
    /\ UNCHANGED <<inst, inst0, dirProv, cur, curProv, curIsInst>>

\* inst[k].offers_course(kw)
OffersCourse(k, kw) ==
    /\ out' = BoolOut(offers_course(Obj(inst[k]), kw))
    /\ op' = [NoOp EXCEPT !.name = "offers_course", !.n = k, !.kw = kw]
    /\ arg' = <<>>
    /\ argAfter' = <<>>
    /\ UNCHANGED <<inst, inst0, dirProv, cur, curProv, curIsInst>>

\* InstitutionDirectory(cur): the new directory holds the caller's list itself
Construct ==
    /\ inst' = cur
    /\ inst0' = cur
    /\ dirProv' = curProv
    /\ curIsInst' = TRUE
    /\ op' = [NoOp EXCEPT !.name = "construct"]
    /\ arg' = <<>>
    /\ argAfter' = <<>>
    /\ out' = NoOut
    /\ UNCHANGED <<cur, curProv>>

Next ==
    \/ \E c \in Criteria : Filter(c)
    \/ \E by \in SortKeys, d \in BOOLEAN : Sort(by, d)
    \/ \E n \in -1..(MaxInst + 1) : TopN(n)
    \/ Summarize

\* The queries of the command line and of the tests, on the loaded directory.
Spec == Init /\ [][Next]_vars

\* Filters composed: a second directory is built from the result of a filter
\* on the loaded one, and filtered in turn.
NextCompose ==
    \/ \E c \in Criteria : Filter(c)
    \/ dirProv = None /\ Construct

SpecCompose == Init /\ [][NextCompose]_vars

\* The methods of an institution, and the queries that call them, on a
\* directory of one institution: each of the dataset, and one for every
\* combination of numeric field values.
InitRank == InitWith(DatasetRefs \cup NumericRefs, 1)

NextRank ==
    \/ \E k \in 1..Len(inst) : RankScore(k)
    \/ \E k \in 1..Len(inst), kw \in Keywords : OffersCourse(k, kw)
    \/ Filter(NoCriteria)
    \/ \E by \in SortKeys, d \in BOOLEAN : Sort(by, d)
    \/ Summarize

SpecRank == InitRank /\ [][NextRank]_vars

(***************************************************************************)
(* Properties.                                                             *)
(***************************************************************************)
Count(xs, x) == Cardinality({j \in 1..Len(xs) : xs[j] = x})

IsPermutation(xs, ys) ==
    /\ Len(xs) = Len(ys)
    /\ \A j \in 1..Len(ys) : Count(xs, ys[j]) = Count(ys, ys[j])

\* C1: for an institution of any category with non-negative tuition and
\* non-negative population, whatever its accreditation score, rank_score()
\* returns a number in the closed interval [0, 1].
C1_RankScoreInUnitInterval ==
    (/\ op.name = "rank_score"
     /\ Obj(inst[op.n]).tuition >= 0
     /\ Obj(inst[op.n]).pop >= 0)
    => /\ out.kind = "score"
       /\ 0 <= out.val.num
       /\ out.val.num <= out.val.den

\* an accreditation score above 100 and a population above 30,000, clamped:
\* the score is exactly 1
C1_Witness ==
    /\ op.name = "rank_score"
    /\ Obj(inst[op.n]).tuition = 0
    /\ Obj(inst[op.n]).accr > AccreditationScale
    /\ Obj(inst[op.n]).pop > PopulationScale
    /\ out.kind = "score"
    /\ out.val = One

\* A present criterion is one given a value other than the empty string.
Given(o) == o # None /\ o # Some(<<>>)

EqualIgnoringCase(a, b) == StrLower(a) = StrLower(b)

Satisfies(i, c) ==
    /\ Given(c.category) => EqualIgnoringCase(category(i), c.category[1])
    /\ Given(c.ownership) => EqualIgnoringCase(i.ownership, c.ownership[1])
    /\ Given(c.lga) => EqualIgnoringCase(i.lga, c.lga[1])
    /\ Given(c.course_keyword) => offers_course(i, c.course_keyword[1])
    /\ c.min_accreditation # None => i.accr >= c.min_accreditation[1]
    /\ c.max_tuition # None => i.tuition <= c.max_tuition[1]

\* C2: filter returns exactly the institutions of the collection that satisfy
\* every criterion that is present, in collection order; with a category
\* criterion every institution returned has that category.
C2_FilterSelectsExactly ==
    op.name = "filter"
    => /\ out.kind = "list"
       /\ out.list = SelectSeq(inst, LAMBDA r : Satisfies(Obj(r), op.crit))
       /\ Given(op.crit.category)
          => \A j \in 1..Len(out.list) :
                category(Obj(out.list[j])) = StrLower(op.crit.category[1])

\* a minimum accreditation that one institution meets exactly and another
\* misses
C2_Witness ==
    /\ op.name = "filter"
    /\ op.crit.min_accreditation # None
    /\ \E j \in 1..Len(out.list) :
          Obj(out.list[j]).accr = op.crit.min_accreditation[1]
    /\ Len(out.list) < Len(inst)
    /\ \E j \in 1..Len(inst) : Obj(inst[j]).accr < op.crit.min_accreditation[1]

\* C3: filtering by A and then, on a directory built from the result, by B
\* gives the same sequence as filtering by A and B together, and as filtering
\* by B and then by A.
C3_FiltersCompose ==
    (op.name = "filter" /\ dirProv # None /\ Compatible(dirProv[1].crit, op.crit))
    => LET A == dirProv[1].crit
           B == op.crit
           base == dirProv[1].base
       IN  /\ out.list = filter(base, Merge(A, B)).ret.list
           /\ out.list = filter(filter(base, B).ret.list, A).ret.list

\* both filters narrow, on different fields
C3_Witness ==
    /\ op.name = "filter"
    /\ dirProv # None
    /\ Compatible(dirProv[1].crit, op.crit)
    /\ \E f \in Fields, g \in Fields :
          f # g /\ dirProv[1].crit[f] # None /\ op.crit[g] # None
          /\ dirProv[1].crit[g] = None /\ op.crit[f] = None
    /\ Len(inst) < Len(dirProv[1].base)
    /\ Len(out.list) < Len(inst)

\* The sort key of institution i under key name by, as the specification
\* states it.
SortKeyValue(by, i) ==
    CASE by = "tuition" -> i.tuition
      [] by = "accreditation" -> i.accr
      [] by = "population" -> i.pop
      [] by = "name" -> StrLower(i.name)
      [] OTHER -> rank_score(i).val

SortKeyLeq(by, i, j) ==
    CASE by \in {"tuition", "accreditation", "population"} ->
           SortKeyValue(by, i) <= SortKeyValue(by, j)
      [] by = "name" ->
           \/ SortKeyValue(by, i) = SortKeyValue(by, j)
           \/ StrLess(SortKeyValue(by, i), SortKeyValue(by, j))
      [] OTHER -> RatLeq(SortKeyValue(by, i), SortKeyValue(by, j))

\* C4: sort is stable in both directions: the institutions of equal key are
\* in the output in the order they have in the input.
C4_SortStable ==
    (op.name = "sort" /\ out.kind = "list")
    => \A j \in 1..Len(arg) :
          LET SameKey(r) ==
                  SortKeyValue(op.by, Obj(r)) = SortKeyValue(op.by, Obj(arg[j]))
          IN  SelectSeq(out.list, SameKey) = SelectSeq(arg, SameKey)

\* a descending sort of two different institutions of equal key, among others
\* of another key
C4_Witness ==
    /\ op.name = "sort"
    /\ op.descending
    /\ out.kind = "list"
    /\ \E j \in 1..Len(arg), k \in 1..Len(arg) :
          /\ j < k
          /\ arg[j] # arg[k]
          /\ SortKeyValue(op.by, Obj(arg[j])) = SortKeyValue(op.by, Obj(arg[k]))
          /\ \E a \in 1..Len(out.list), b \in 1..Len(out.list) :
                a < b /\ out.list[a] = arg[j] /\ out.list[b] = arg[k]

\* C5: for each of the five keys, sort returns a permutation of its input,
\* non-increasing in the key when descending and non-decreasing when not.
C5_SortOrdered ==
    (op.name = "sort" /\ op.by \in KeyNames)
    => /\ out.kind = "list"
       /\ IsPermutation(out.list, arg)
       /\ \A j \in 1..(Len(out.list) - 1) :
             IF op.descending
             THEN SortKeyLeq(op.by, Obj(out.list[j + 1]), Obj(out.list[j]))
             ELSE SortKeyLeq(op.by, Obj(out.list[j]), Obj(out.list[j + 1]))

\* a sort by name that reorders two names whose order depends on the case
C5_Witness ==
    /\ op.name = "sort"
    /\ op.by = "name"
    /\ out.kind = "list"
    /\ out.list # arg
    /\ \E j \in 1..(Len(out.list) - 1) :
          /\ StrLess(StrLower(Obj(out.list[j]).name),
                     StrLower(Obj(out.list[j + 1]).name))
          /\ StrLess(Obj(out.list[j + 1]).name, Obj(out.list[j]).name)

\* C6: top_n(xs, n) is the prefix of xs of length min(n, len(xs)) when n > 0
\* and the empty sequence when n <= 0, and never fails.
C6_TopNPrefix ==
    op.name = "top_n"
    => /\ out.kind = "list"
       /\ out.list = IF op.n > 0
                     THEN SubSeq(arg, 1, IF op.n < Len(arg) THEN op.n ELSE Len(arg))
                     ELSE <<>>

\* a negative n on a list that is not empty
C6_Witness ==
    /\ op.name = "top_n"
    /\ op.n < 0
    /\ arg # <<>>
    /\ out.kind = "list"
    /\ out.list = <<>>

\* C7: offers_course with an empty keyword returns true for every
\* institution, whatever its course list.
C7_EmptyKeywordMatchesAll ==
    (op.name = "offers_course" /\ op.kw = <<>>) => (out.kind = "bool" /\ out.flag)

\* C8: no operation on the directory or on an institution fails, whatever
\* the numeric field values.
C8_NoOperationRaises == out.kind # "error"

\* C9: the directory's collection is as at construction, the list passed to
\* sort, top_n or summarize is unchanged by the call, and a list returned is
\* a new list.
C9_NoMutationFreshResults ==
    /\ inst = inst0
    /\ op.name \in {"sort", "top_n", "summarize"} => argAfter = arg
    /\ out.kind = "list" => out.alias = "new"

\* a sort whose result is in another order than its argument
C9_Witness ==
    /\ op.name = "sort"
    /\ out.kind = "list"
    /\ out.list # arg
    /\ argAfter = arg
    /\ inst = inst0
    /\ inst # <<>>

\* C10: a sort by an unknown key name does not fail and returns the sequence
\* that the sort by "rank" in the same direction returns.
C10_UnknownKeyIsRank ==
    (op.name = "sort" /\ op.by \notin KeyNames)
    => /\ out.kind = "list"
       /\ out = sort(arg, "rank", op.descending).ret

\* an unknown key name, and a result that the sort by name would not give
C10_Witness ==
    /\ op.name = "sort"
    /\ op.by \notin KeyNames
    /\ out.kind = "list"
    /\ out.list # arg
    /\ out.list # sort(arg, "name", op.descending).ret.list

====
